---- MODULE Spec2Model ----
(***************************************************************************)
(* Model of youtube_email_scraper.py: the GoogleEmailScraper batch run     *)
(* over the CSV record store (load_urls_from_csv, login_to_google,         *)
(* navigate_to_url, solve_captcha, save_emails_to_csv, run).               *)
(*                                                                         *)
(* The backing file is modelled as the csv module sees it: a header (the   *)
(* sequence of column names) and the data rows (sequences of field values  *)
(* aligned with the header).  The browser and the 2Captcha service are     *)
(* external: every call on them either succeeds or raises, chosen          *)
(* nondeterministically.                                                   *)
(***************************************************************************)
EXTENDS Naturals, Sequences, FiniteSets

VARIABLES
    file,            \* content of self.csv_file on disk
    urls_to_scrape,  \* self.urls_to_scrape, loaded once in __init__
    pc,              \* position of the process
    i,               \* 1-based position of run()'s for loop in urls_to_scrape
    updated_rows,    \* save_emails_to_csv's local list between read and write
    email,           \* run()'s local `email` (text of #email)
    runNo,           \* number of the current process invocation
    log,             \* events of the current invocation, in order
    fileAtLoad,      \* the file as it was when this invocation loaded it
    fileAtRecord,    \* the file as the current record's processing last saw it
    call,            \* the last completed save_emails_to_csv call
    current_url,     \* login_to_google's local: the address after sb.open
    prevHalt,        \* the record at which the previous invocation halted, or 0
    edit,            \* the last change another writer made to the file
    page_source,     \* the page text extract_email_content reads
    emails           \* the list extract_email_content returned

vars == <<file, urls_to_scrape, pc, i, updated_rows, email, runNo, log,
          fileAtLoad, fileAtRecord, call, current_url, prevHalt, edit,
          page_source, emails>>

\* ------------------------------------------------------------- bounds
MaxRows == 2
MaxRuns == 2

\* ------------------------------------------------------------- domains
Urls == {"u1", "u2"}
StoredEmails == {"", "a@b.com"}
Notes == {"n1"}
PageTexts == {"", "c@d.com"}
Codes == {"tok"}

Headers ==
    { <<"channel_url", "email_id">>,
      <<"email_id", "channel_url">>,
      <<"channel_url", "email_id", "note">>,
      <<"channel_url">>,
      <<"email_id">> }

ColValues(c) ==
    IF c = "channel_url" THEN Urls
    ELSE IF c = "email_id" THEN StoredEmails
    ELSE Notes

RowsOf(h) ==
    { r \in [1..Len(h) -> Urls \cup StoredEmails \cup Notes] :
        \A j \in 1..Len(h) : r[j] \in ColValues(h[j]) }

FilesOf(h) ==
    { [header |-> h, rows |-> rs] :
        rs \in UNION { [1..n -> RowsOf(h)] : n \in 0..MaxRows } }

Files == UNION { FilesOf(h) : h \in Headers }

\* open(self.csv_file, 'w') truncates: no header line, no rows
EmptyFile == [header |-> <<>>, rows |-> <<>>]

\* ------------------------------------------------------------- csv
Range(s) == { s[j] : j \in 1..Len(s) }

Index(s, c) == CHOOSE j \in 1..Len(s) : s[j] = c

\* csv.DictReader: each data row as a dict keyed by the header's names
DictReader(f) ==
    [k \in 1..Len(f.rows) |->
        [c \in Range(f.header) |-> f.rows[k][Index(f.header, c)]]]

\* load_urls_from_csv: row['channel_url'] / row['email_id'] raise KeyError
\* on the first data row when the column is missing
load_urls_from_csv(f) ==
    LET rows == DictReader(f) IN
    IF Len(rows) > 0 /\ ~({"channel_url", "email_id"} \subseteq Range(f.header))
    THEN [ok |-> FALSE, urls |-> <<>>]
    ELSE [ok |-> TRUE,
          urls |-> [k \in 1..Len(rows) |->
                      [channel_url |-> rows[k]["channel_url"],
                       email_id |-> rows[k]["email_id"]]]]

\* save_emails_to_csv, read loop: row['channel_url'] == url, row['email_id'] = email
SaveReadRaises(f) ==
    Len(f.rows) > 0 /\ "channel_url" \notin Range(f.header)

SetEmail(d, e) ==
    [c \in (DOMAIN d) \cup {"email_id"} |-> IF c = "email_id" THEN e ELSE d[c]]

\* variant: the rows are taken from self.urls_to_scrape, not read from the file
SaveReadFromMemory(f, url, e) ==
    [k \in 1..Len(urls_to_scrape) |->
        [c \in {"channel_url", "email_id"} |->
            IF c = "channel_url" THEN urls_to_scrape[k].channel_url
            ELSE IF urls_to_scrape[k].channel_url = url THEN e
            ELSE urls_to_scrape[k].email_id]]

SaveRead(f, url, e) ==
    LET rows == DictReader(f) IN
    [k \in 1..Len(rows) |->
        IF rows[k]["channel_url"] = url THEN SetEmail(rows[k], e) ELSE rows[k]]

\* csv.DictWriter(fieldnames=['channel_url','email_id']): extrasaction='raise'
fieldnames == <<"channel_url", "email_id">>

HasExtras(d) == ~((DOMAIN d) \subseteq Range(fieldnames))

\* _dict_to_list: missing keys are written as restval ''
DictToList(d) ==
    [j \in 1..Len(fieldnames) |->
        IF fieldnames[j] \in DOMAIN d THEN d[fieldnames[j]] ELSE ""]

SaveWriteRaises(rows) == \E k \in 1..Len(rows) : HasExtras(rows[k])

\* rows written before the first row that raises
WrittenCount(rows) ==
    IF SaveWriteRaises(rows)
    THEN (CHOOSE k \in 1..Len(rows) :
            HasExtras(rows[k]) /\ \A m \in 1..(k-1) : ~HasExtras(rows[m])) - 1
    ELSE Len(rows)

\* the file after writeheader(), writerows(updated_rows) and the close
SaveWrite(rows) ==
    [header |-> fieldnames,
     rows |-> [k \in 1..WrittenCount(rows) |-> DictToList(rows[k])]]

\* ------------------------------------------------------------- events
\* the history of an invocation: what was done (ev), for which record (k, 0
\* for the login), with which value (v)
Ev(e, k, v) == [ev |-> e, k |-> k, v |-> v]

Positions == 1..Len(log)

Has(e, k) == \E p \in Positions : log[p].ev = e /\ log[p].k = k

Count(es, k) == Cardinality({ p \in Positions : log[p].ev \in es /\ log[p].k = k })

NoEdit == [n |-> 0, k |-> 0, v |-> "", at |-> 0]

NoCall == [url |-> "", email |-> "", before |-> EmptyFile, raised |-> FALSE, n |-> 0]

\* "store" is the position of a scraper whose run() is not called
Running ==
    pc \notin {"done", "returned", "raised", "exited", "crashed", "load_failed", "store"}

\* ------------------------------------------------------------- Init
\* __init__: self.urls_to_scrape = self.load_urls_from_csv()
Init ==
    /\ file \in Files
    /\ urls_to_scrape = load_urls_from_csv(file).urls
    /\ pc = IF load_urls_from_csv(file).ok THEN "start" ELSE "load_failed"
    /\ i = 0
    /\ updated_rows = <<>>
    /\ email = ""
    /\ runNo = 1
    /\ log = <<>>
    /\ fileAtLoad = file
    /\ fileAtRecord = file
    /\ call = NoCall
    /\ current_url = <<>>
    /\ prevHalt = 0
    /\ edit = NoEdit
    /\ page_source = <<>>
    /\ emails = <<>>

\* ------------------------------------------------------------- steps
\* an unhandled exception leaves run() through the `with SB(...)` block
Raise(e) ==
    /\ pc' = "raised"
    /\ log' = Append(log, Ev(e, i, ""))
    /\ UNCHANGED <<file, urls_to_scrape, i, updated_rows, email, runNo,
                   fileAtLoad, fileAtRecord, call, current_url,
                   prevHalt, edit, page_source, emails>>

\* a browser call that returned: control moves on to position p
Go(p, e) ==
    /\ pc' = p
    /\ log' = Append(log, Ev(e, i, ""))
    /\ UNCHANGED <<file, urls_to_scrape, i, updated_rows, email, runNo,
                   fileAtLoad, fileAtRecord, call, current_url,
                   prevHalt, edit, page_source, emails>>

\* ------------------------------------------------------------- login_to_google
\* the address the browser shows after sb.open("https://accounts.google.com/"),
\* as the sequence of its parts
LandingUrls ==
    { <<"accounts", "google", "com", "signin">>,
      <<"myaccount", "google", "com">>,
      <<"accounts", "google", "com", "myaccount">> }

\* variant: current_url.startswith("myaccount")
AlreadyLoggedInPrefix(u) ==
    Len(u) > 0 /\ u[1] = "myaccount"

\* "myaccount" in current_url
AlreadyLoggedIn(u) ==
    \E j \in 1..Len(u) : u[j] = "myaccount"

LoginOpen ==
    /\ pc = "start"
    /\ \E u \in LandingUrls :
         /\ current_url' = u
         /\ pc' = IF AlreadyLoggedIn(u) THEN "loop" ELSE "type_identifier"
         /\ i' = IF AlreadyLoggedIn(u) THEN 1 ELSE i
    /\ log' = Append(log, Ev("login_open", 0, ""))
    /\ UNCHANGED <<file, urls_to_scrape, updated_rows, email, runNo,
                   fileAtLoad, fileAtRecord, call,
                   prevHalt, edit, page_source, emails>>

LoginTypeIdentifier ==
    /\ pc = "type_identifier"
    /\ \/ Go("click_identifier_next", "type_identifier")
       \/ Raise("type_identifier_fail")

LoginClickIdentifierNext ==
    /\ pc = "click_identifier_next"
    /\ \/ Go("type_password", "click_identifier_next")
       \/ Raise("click_identifier_next_fail")

\* variant: the failure of sb.type on the password field is swallowed
LoginTypePasswordSwallows ==
    /\ pc = "type_password"
    /\ \/ Go("click_next", "type_password")
       \/ Go("click_next", "type_password_fail")

LoginTypePassword ==
    /\ pc = "type_password"
    /\ \/ Go("click_next", "type_password")
       \/ Raise("type_password_fail")

LoginClickNext ==
    /\ pc = "click_next"
    /\ \/ /\ pc' = "loop"
          /\ i' = 1
          /\ log' = Append(log, Ev("click_next", 0, ""))
          /\ UNCHANGED <<file, urls_to_scrape, updated_rows, email, runNo,
                         fileAtLoad, fileAtRecord, call, current_url,
                   prevHalt, edit, page_source, emails>>
       \/ Raise("click_next_fail")

\* ------------------------------------------------------------- run: the loop
Pending(k) == urls_to_scrape[k].email_id = ""

\* else branch: "Skipping ... as email ID is provided"
SkipRecord ==
    /\ pc = "loop"
    /\ i <= Len(urls_to_scrape)
    /\ ~Pending(i)
    /\ i' = i + 1
    /\ log' = Append(log, Ev("skip", i, ""))
    /\ UNCHANGED <<file, urls_to_scrape, pc, updated_rows, email, runNo,
                   fileAtLoad, fileAtRecord, call, current_url,
                   prevHalt, edit, page_source, emails>>

\* the for loop is exhausted: "Email scraping process completed."
Finish ==
    /\ pc = "loop"
    /\ i > Len(urls_to_scrape)
    /\ pc' = "done"
    /\ UNCHANGED <<file, urls_to_scrape, i, updated_rows, email, runNo, log,
                   fileAtLoad, fileAtRecord, call, current_url,
                   prevHalt, edit, page_source, emails>>

\* ------------------------------------------------------------- navigate_to_url
NavigateOpen ==
    /\ pc = "loop"
    /\ i <= Len(urls_to_scrape)
    /\ Pending(i)
    /\ fileAtRecord' = file
    /\ \/ /\ pc' = "tagline"
          /\ log' = Append(log, Ev("nav", i, urls_to_scrape[i].channel_url))
       \/ /\ pc' = "raised"
          /\ log' = Append(log, Ev("nav_fail", i, ""))
    /\ UNCHANGED <<file, urls_to_scrape, i, updated_rows, email, runNo,
                   fileAtLoad, call, current_url,
                   prevHalt, edit, page_source, emails>>

\* variant: the click on the tagline wrapped in try/except: pass
TaglineClickBestEffort ==
    /\ pc = "tagline"
    /\ \/ Go("trigger", "tagline")
       \/ Go("trigger", "tagline_fail")

\* sb.click('#channel-tagline'), not guarded by any try
TaglineClick ==
    /\ pc = "tagline"
    /\ \/ Go("trigger", "tagline")
       \/ Raise("tagline_fail")

\* ------------------------------------------------------------- solve_captcha
\* variant: run() does not test captcha_solved and goes on to read #email
TriggerClickUnchecked ==
    /\ pc = "trigger"
    /\ \/ Go("read_sitekey", "trigger")
       \/ Go("get_text", "trigger_not_visible")
       \/ Raise("trigger_absent")

\* variant: run() does `continue` instead of `return` when solve_captcha
\* returns False
TriggerClickContinues ==
    /\ pc = "trigger"
    /\ \/ Go("read_sitekey", "trigger")
       \/ /\ pc' = "loop"
          /\ i' = i + 1
          /\ log' = Append(log, Ev("trigger_not_visible", i, ""))
          /\ UNCHANGED <<file, urls_to_scrape, updated_rows, email, runNo,
                         fileAtLoad, fileAtRecord, call, current_url,
                   prevHalt, edit, page_source, emails>>
       \/ Raise("trigger_absent")

\* sb.click("#view-email-button-container"): ElementNotVisibleException is
\* caught (return False, and run() returns); any other exception propagates
TriggerClick ==
    /\ pc = "trigger"
    /\ \/ Go("read_sitekey", "trigger")
       \/ Go("returned", "trigger_not_visible")
       \/ Raise("trigger_absent")

ReadSiteKey ==
    /\ pc = "read_sitekey"
    /\ \/ Go("solve", "sitekey")
       \/ Raise("sitekey_fail")

\* variant: a failed solver call is tried again
CallSolverRetries ==
    /\ pc = "solve"
    /\ \/ \E code \in Codes :
            /\ pc' = "inject"
            /\ log' = Append(log, Ev("solver", i, code))
            /\ UNCHANGED <<file, urls_to_scrape, i, updated_rows, email, runNo,
                           fileAtLoad, fileAtRecord, call, current_url,
                   prevHalt, edit, page_source, emails>>
       \/ /\ Count({"solver_fail"}, i) < 2
          /\ Go("solve", "solver_fail")

\* solver.recaptcha(sitekey=site_key, url=current_url)
CallSolver ==
    /\ pc = "solve"
    /\ \/ \E code \in Codes :
            /\ pc' = "inject"
            /\ log' = Append(log, Ev("solver", i, code))
            /\ UNCHANGED <<file, urls_to_scrape, i, updated_rows, email, runNo,
                           fileAtLoad, fileAtRecord, call, current_url,
                   prevHalt, edit, page_source, emails>>
       \/ Raise("solver_fail")

InjectToken ==
    /\ pc = "inject"
    /\ \/ Go("submit", "inject")
       \/ Raise("inject_fail")

ClickSubmit ==
    /\ pc = "submit"
    /\ \/ Go("get_text", "submit")
       \/ Raise("submit_fail")

\* ------------------------------------------------------------- run: extract
\* variant: the except branch logs and falls through to the save
GetTextFallsThrough ==
    /\ pc = "get_text"
    /\ \/ \E t \in PageTexts :
            /\ pc' = "save"
            /\ email' = t
            /\ log' = Append(log, Ev("text", i, t))
       \/ /\ pc' = "save"
          /\ email' = email
          /\ log' = Append(log, Ev("text_fail", i, ""))
    /\ UNCHANGED <<file, urls_to_scrape, i, updated_rows, runNo,
                   fileAtLoad, fileAtRecord, call, current_url,
                   prevHalt, edit, page_source, emails>>

\* email = sb.get_text("#email"); except Exception: quit()
GetText ==
    /\ pc = "get_text"
    /\ \/ \E t \in PageTexts :
            /\ pc' = "save"
            /\ email' = t
            /\ log' = Append(log, Ev("text", i, t))
       \/ /\ pc' = "exited"
          /\ email' = email
          /\ log' = Append(log, Ev("text_fail", i, ""))
    /\ UNCHANGED <<file, urls_to_scrape, i, updated_rows, runNo,
                   fileAtLoad, fileAtRecord, call, current_url,
                   prevHalt, edit, page_source, emails>>

\* ------------------------------------------------------------- save_emails_to_csv
\* the read loop, then open(self.csv_file, 'w'), which truncates the file
SaveOpen ==
    /\ pc = "save"
    /\ IF SaveReadRaises(file)
       THEN /\ pc' = "raised"
            /\ log' = Append(log, Ev("save_read_fail", i, ""))
            /\ UNCHANGED <<file, updated_rows>>
       ELSE /\ pc' = "save_write"
            /\ updated_rows' = SaveRead(file, urls_to_scrape[i].channel_url, email)
            /\ file' = EmptyFile
            /\ log' = Append(log, Ev("save_open", i, urls_to_scrape[i].channel_url))
    /\ fileAtRecord' = file
    /\ UNCHANGED <<urls_to_scrape, i, email, runNo, fileAtLoad, call, current_url,
                   prevHalt, edit, page_source, emails>>

\* writeheader(), writerows(updated_rows), and the close that flushes them
SaveWriteClose ==
    /\ pc = "save_write"
    /\ file' = SaveWrite(updated_rows)
    /\ call' = [url |-> urls_to_scrape[i].channel_url, email |-> email,
                before |-> fileAtRecord, raised |-> SaveWriteRaises(updated_rows),
                n |-> call.n]
    /\ IF SaveWriteRaises(updated_rows)
       THEN /\ pc' = "raised"
            /\ i' = i
            /\ log' = Append(log, Ev("save_fail", i, email))
       ELSE /\ pc' = "loop"
            /\ i' = i + 1
            /\ log' = Append(log, Ev("saved", i, email))
    /\ UNCHANGED <<urls_to_scrape, updated_rows, email, runNo, fileAtLoad, fileAtRecord,
                   current_url,
                   prevHalt, edit, page_source, emails>>

\* ------------------------------------------------------------- the process
\* the process is terminated from outside, at any point
Crash ==
    /\ Running
    /\ pc' = "crashed"
    /\ UNCHANGED <<file, urls_to_scrape, i, updated_rows, email, runNo, log,
                   fileAtLoad, fileAtRecord, call, current_url,
                   prevHalt, edit, page_source, emails>>

\* the program is started again on the file as the last invocation left it
Restart ==
    /\ ~Running
    /\ runNo < MaxRuns
    /\ urls_to_scrape' = load_urls_from_csv(file).urls
    /\ pc' = IF load_urls_from_csv(file).ok THEN "start" ELSE "load_failed"
    /\ i' = 0
    /\ updated_rows' = <<>>
    /\ email' = ""
    /\ runNo' = runNo + 1
    /\ log' = <<>>
    /\ fileAtLoad' = file
    /\ fileAtRecord' = file
    /\ call' = NoCall
    /\ current_url' = <<>>
    /\ prevHalt' = IF pc \in {"raised", "exited", "returned"} /\ i >= 1 THEN i ELSE 0
    /\ UNCHANGED <<file, edit, page_source, emails>>

\* the steps of one invocation
RunStep ==
    \/ LoginOpen
    \/ LoginTypeIdentifier
    \/ LoginClickIdentifierNext
    \/ LoginTypePassword
    \/ LoginClickNext
    \/ SkipRecord
    \/ Finish
    \/ NavigateOpen
    \/ TaglineClick
    \/ TriggerClick
    \/ ReadSiteKey
    \/ CallSolver
    \/ InjectToken
    \/ ClickSubmit
    \/ GetText
    \/ SaveOpen
    \/ SaveWriteClose
    \/ Crash

Next == RunStep \/ Restart

Spec == Init /\ [][Next]_vars

\* ------------------------------------------------------------- another writer
MaxEdits == 1

ExternalEmails == {"x@y.com"}

\* another process rewrites the email_id of one row of the file while the
\* scraper is between two records, after a save_emails_to_csv call of the run
ExternalEdit ==
    /\ pc = "loop"
    /\ Len(log) > 0
    /\ log[Len(log)].ev = "saved"
    /\ edit.n < MaxEdits
    /\ "email_id" \in Range(file.header)
    /\ \E k \in 1..Len(file.rows), v \in ExternalEmails :
         /\ file.rows[k][Index(file.header, "email_id")] # v
         /\ file' = [file EXCEPT !.rows[k][Index(file.header, "email_id")] = v]
         /\ edit' = [n |-> edit.n + 1, k |-> k, v |-> v, at |-> Len(log)]
    /\ UNCHANGED <<urls_to_scrape, pc, i, updated_rows, email, runNo, log,
                   fileAtLoad, fileAtRecord, call, current_url, prevHalt,
                   page_source, emails>>

\* one invocation, with the other writer
NextEdit == RunStep \/ ExternalEdit

SpecEdit == Init /\ [][NextEdit]_vars

\* ------------------------------------------------------------- the store alone
\* save_emails_to_csv called directly on a constructed scraper
MaxCalls == 2

CallUrls == Urls \cup {"nonexistent"}

InitStore ==
    /\ file \in { f \in Files : {"channel_url", "email_id"} \subseteq Range(f.header) }
    /\ urls_to_scrape = load_urls_from_csv(file).urls
    /\ pc = "store"
    /\ i = 0
    /\ updated_rows = <<>>
    /\ email = ""
    /\ runNo = 1
    /\ log = <<>>
    /\ fileAtLoad = file
    /\ fileAtRecord = file
    /\ call = NoCall
    /\ current_url = <<>>
    /\ prevHalt = 0
    /\ edit = NoEdit
    /\ page_source = <<>>
    /\ emails = <<>>

save_emails_to_csv ==
    /\ pc = "store"
    /\ call.n < MaxCalls
    /\ \E url \in CallUrls, e \in PageTexts \cup StoredEmails :
         IF SaveReadRaises(file)
         THEN /\ call' = [url |-> url, email |-> e, before |-> file,
                          raised |-> TRUE, n |-> call.n + 1]
              /\ UNCHANGED file
         ELSE /\ file' = SaveWrite(SaveRead(file, url, e))
              /\ call' = [url |-> url, email |-> e, before |-> file,
                          raised |-> SaveWriteRaises(SaveRead(file, url, e)),
                          n |-> call.n + 1]
    /\ UNCHANGED <<urls_to_scrape, pc, i, updated_rows, email, runNo, log,
                   fileAtLoad, fileAtRecord, current_url,
                   prevHalt, edit, page_source, emails>>

NextStore == save_emails_to_csv

SpecStore == InitStore /\ [][NextStore]_vars

\* ------------------------------------------------------------- extract_email_content
\* a page text is a sequence of characters, put together from a few pieces
MaxFrags == 3

Fragments ==
    { <<"a", "@", "b", ".", "c", "c">>, <<" ">>, <<"a">>, <<".">>, <<"@">>,
      <<"1">>, <<"|">> }

RECURSIVE Flatten(_)
Flatten(fs) == IF fs = <<>> THEN <<>> ELSE Head(fs) \o Flatten(Tail(fs))

Texts ==
    { Flatten(fs) : fs \in UNION { [1..n -> Fragments] : n \in 0..MaxFrags } }

\* the character classes of
\* r'\b[A-Za-z0-9._%+-]+@[A-Za-z0-9.-]+\.[A-Z|a-z]{2,}\b'
Letters == {"a", "b", "c"}

Digits == {"1"}

LocalClass == Letters \cup Digits \cup {".", "_", "%", "+", "-"}

DomainClass == Letters \cup Digits \cup {".", "-"}

TldClass == Letters \cup {"|"}

WordChars == Letters \cup Digits \cup {"_"}

IsWord(t, j) == j \in 1..Len(t) /\ t[j] \in WordChars

\* \b holds between the characters j-1 and j
Boundary(t, j) == IsWord(t, j - 1) # IsWord(t, j)

AllIn(t, from, to, class) == \A j \in from..to : t[j] \in class

\* the pairs <<d, e>>: the local part runs from s up to an "@", the domain
\* from there to d, then a ".", then the last label to e, with \b around
MatchCands(t, s) ==
    IF ~Boundary(t, s) THEN {}
    ELSE { de \in (1..Len(t)) \X (1..Len(t)) :
            \E a \in (s + 1)..Len(t) :
                /\ AllIn(t, s, a - 1, LocalClass)
                /\ t[a] = "@"
                /\ de[1] >= a + 1
                /\ AllIn(t, a + 1, de[1], DomainClass)
                /\ de[1] + 1 <= Len(t)
                /\ t[de[1] + 1] = "."
                /\ de[2] >= de[1] + 3
                /\ AllIn(t, de[1] + 2, de[2], TldClass)
                /\ Boundary(t, de[2] + 1) }

\* the end of the match that starts at s, 0 when there is none: the
\* quantifiers are greedy, so the longest domain wins, then the longest label
MatchEnd(t, s) ==
    LET cands == MatchCands(t, s) IN
    IF cands = {} THEN 0
    ELSE LET d == CHOOSE x \in { de[1] : de \in cands } :
                      \A y \in { de[1] : de \in cands } : y <= x
         IN CHOOSE e \in { de[2] : de \in { c \in cands : c[1] = d } } :
                \A y \in { de[2] : de \in { c \in cands : c[1] = d } } : y <= e

\* re.findall: the matches from left to right, not overlapping
RECURSIVE FindAllFrom(_, _)
FindAllFrom(t, s) ==
    IF s > Len(t) THEN <<>>
    ELSE IF MatchEnd(t, s) > 0
         THEN <<SubSeq(t, s, MatchEnd(t, s))>> \o FindAllFrom(t, MatchEnd(t, s) + 1)
         ELSE FindAllFrom(t, s + 1)

findall(t) == FindAllFrom(t, 1)

\* list(set(emails)): the distinct elements, in an order the caller cannot rely on
ListOfSet(S) ==
    { f \in [1..Cardinality(S) -> S] :
        \A a, b \in 1..Cardinality(S) : f[a] = f[b] => a = b }

InitExtract ==
    /\ page_source \in Texts
    /\ emails = <<>>
    /\ pc = "extract"
    /\ file = EmptyFile
    /\ urls_to_scrape = <<>>
    /\ i = 0
    /\ updated_rows = <<>>
    /\ email = ""
    /\ runNo = 1
    /\ log = <<>>
    /\ fileAtLoad = EmptyFile
    /\ fileAtRecord = EmptyFile
    /\ call = NoCall
    /\ current_url = <<>>
    /\ prevHalt = 0
    /\ edit = NoEdit

\* variant: return emails, without list(set(...))
ExtractWithoutSet ==
    /\ pc = "extract"
    /\ emails' = findall(page_source)
    /\ pc' = "extracted"
    /\ UNCHANGED <<file, urls_to_scrape, i, updated_rows, email, runNo, log,
                   fileAtLoad, fileAtRecord, call, current_url, prevHalt, edit,
                   page_source>>

extract_email_content ==
    /\ pc = "extract"
    /\ emails' \in ListOfSet(Range(findall(page_source)))
    /\ pc' = "extracted"
    /\ UNCHANGED <<file, urls_to_scrape, i, updated_rows, email, runNo, log,
                   fileAtLoad, fileAtRecord, call, current_url, prevHalt, edit,
                   page_source>>

NextExtract == extract_email_content

SpecExtract == InitExtract /\ [][NextExtract]_vars

\* ------------------------------------------------------------- properties
\* the email_id field of the k-th data row of a file
FileEmail(f, k) == f.rows[k][Index(f.header, "email_id")]

FileUrl(f, k) == f.rows[k][Index(f.header, "channel_url")]

\* the events of one record that lie after its challenge trigger
AfterTrigger ==
    {"sitekey", "sitekey_fail", "solver", "solver_fail", "inject", "inject_fail",
     "submit", "submit_fail", "text", "text_fail", "save_open", "save_read_fail",
     "saved", "save_fail"}

\* the event at position p is the last of the invocation, nothing was done for
\* a later record, and the file is as it was when the record was begun
HaltsAt(p) ==
    /\ p = Len(log)
    /\ \A q \in Positions : log[q].k <= log[p].k
    /\ file = fileAtRecord

\* every value saved in this invocation and not saved over later is in the file
SavedValuesKept ==
    \A q \in Positions :
        (/\ log[q].ev = "saved"
         /\ \A r \in Positions :
              (r > q /\ log[r].ev = "saved") =>
                  urls_to_scrape[log[r].k].channel_url # urls_to_scrape[log[q].k].channel_url)
        => /\ log[q].k <= Len(file.rows)
           /\ FileEmail(file, log[q].k) = log[q].v

\* C1: a record whose email_id is non-empty at load is never navigated to,
\* never solved for, and save_emails_to_csv is never called for its channel_url
C1_IdempotentSkip ==
    \A k \in 1..Len(urls_to_scrape) :
        ~Pending(k) =>
            /\ \A p \in Positions : log[p].k = k => log[p].ev = "skip"
            /\ \A p \in Positions :
                 log[p].ev = "save_open" => log[p].v # urls_to_scrape[k].channel_url

\* C2: whenever the process is terminated, the file still holds every record,
\* with the value of every record resolved at load or saved earlier in the run
C2_CrashDurability ==
    pc = "crashed" =>
        /\ Len(file.rows) = Len(urls_to_scrape)
        /\ \A k \in 1..Len(urls_to_scrape) :
             ~Pending(k) => FileEmail(file, k) = urls_to_scrape[k].email_id
        /\ \A p \in Positions :
             log[p].ev = "saved" => FileEmail(file, log[p].k) = log[p].v

\* C3: a save_emails_to_csv call keeps the columns, their order and the rows,
\* and changes only the email_id of the rows whose channel_url is the url
C3_StoreFrame ==
    call.n > 0 =>
        /\ ~call.raised
        /\ file.header = call.before.header
        /\ Len(file.rows) = Len(call.before.rows)
        /\ \A k \in 1..Len(file.rows) : \A j \in 1..Len(file.header) :
             file.rows[k][j] =
                IF file.header[j] = "email_id" /\ FileUrl(call.before, k) = call.url
                THEN call.email
                ELSE call.before.rows[k][j]

\* C4: save_emails_to_csv with a url of no row does not raise and leaves the
\* records (rows, order, values) as they were
C4_UnknownKeyNoOp ==
    (call.n > 0 /\ call.url = "nonexistent") =>
        /\ ~call.raised
        /\ DictReader(file) = DictReader(call.before)

\* C5: when the challenge trigger of record N is absent or not visible, the
\* solver is not called and the store not written for N, and nothing is done
\* for any record after N in that run
C5_HaltOnUnavailable ==
    \A p \in Positions :
        log[p].ev \in {"trigger_not_visible", "trigger_absent"} =>
            /\ HaltsAt(p)
            /\ pc = IF log[p].ev = "trigger_not_visible" THEN "returned" ELSE "raised"
            /\ Count(AfterTrigger, log[p].k) = 0

C5_Witness ==
    /\ Has("trigger_not_visible", 1)
    /\ Len(urls_to_scrape) >= 2
    /\ Pending(2)
    /\ pc = "returned"

C7_SolverFailureHalts ==
    /\ \A k \in 1..Len(urls_to_scrape) : Count({"solver", "solver_fail"}, k) <= 1
    /\ \A p \in Positions :
         log[p].ev = "solver_fail" =>
            /\ HaltsAt(p)
            /\ pc = "raised"
            /\ Count(AfterTrigger \ {"sitekey", "solver_fail"}, log[p].k) = 0

C7_Witness ==
    /\ Has("solver_fail", 1)
    /\ Len(urls_to_scrape) >= 2
    /\ Pending(2)
    /\ pc = "raised"

\* C8 as claimed: when the click on #channel-tagline fails, the record still
\* proceeds to the challenge trigger and the run is not halted
C8_TaglineBestEffort ==
    (Len(log) > 0 /\ log[Len(log)].ev = "tagline_fail") => pc = "trigger"

\* C8 as amended: when the click on #channel-tagline fails, the exception
\* leaves run(): the record never reaches the challenge trigger, nothing is
\* done for a later record and the file is unchanged; only after a click that
\* succeeded is the challenge trigger clicked
C8_TaglineFailureHalts ==
    /\ \A p \in Positions :
         log[p].ev = "tagline_fail" =>
            /\ HaltsAt(p)
            /\ pc = "raised"
            /\ Count({"trigger", "trigger_not_visible", "trigger_absent"}
                        \cup AfterTrigger, log[p].k) = 0
    /\ \A k \in 1..Len(urls_to_scrape) :
         Count({"trigger", "trigger_not_visible", "trigger_absent"}, k) > 0
            => Has("tagline", k)

C8_Witness ==
    /\ Has("tagline_fail", 1)
    /\ Len(urls_to_scrape) >= 2
    /\ Pending(2)
    /\ pc = "raised"

LoginInputs ==
    {"type_identifier", "type_identifier_fail", "click_identifier_next",
     "click_identifier_next_fail", "type_password", "type_password_fail",
     "click_next", "click_next_fail"}

\* C9: the account page is opened once per run and before anything is done
\* for a record, and when the address then contains "myaccount" nothing is
\* typed and no submit control is clicked
C9_AuthenticateOnce ==
    /\ Count({"login_open"}, 0) <= 1
    /\ Len(log) > 0 => log[1].ev = "login_open"
    /\ i >= 1 => Count({"login_open"}, 0) = 1
    /\ (\E j \in 1..Len(current_url) : current_url[j] = "myaccount")
         => Count(LoginInputs, 0) = 0

C9_Witness ==
    /\ current_url = <<"accounts", "google", "com", "myaccount">>
    /\ Has("saved", 1)
    /\ pc = "done"

\* C10: when typing the identifier or the password fails, nothing of the
\* login is attempted again, no record is navigated to, the solver is never
\* called and the file is as it was when the run loaded it
C10_AuthFailureFatal ==
    /\ Count({"type_identifier", "type_identifier_fail"}, 0) <= 1
    /\ Count({"type_password", "type_password_fail"}, 0) <= 1
    /\ \A p \in Positions :
         log[p].ev \in {"type_identifier_fail", "type_password_fail"} =>
            /\ p = Len(log)
            /\ pc = "raised"
            /\ i = 0
            /\ \A q \in Positions : log[q].k = 0
            /\ file = fileAtLoad

C10_Witness ==
    /\ Has("type_password_fail", 0)
    /\ Len(urls_to_scrape) >= 1
    /\ Pending(1)
    /\ pc = "raised"

\* C11: after a run that completes, the store holds the same records in the
\* same order, each record resolved at load with its value and each record
\* pending at load with the value read for it
C11_EndToEnd ==
    pc = "done" =>
        /\ Len(file.rows) = Len(urls_to_scrape)
        /\ \A k \in 1..Len(urls_to_scrape) :
             /\ FileUrl(file, k) = urls_to_scrape[k].channel_url
             /\ ~Pending(k) => FileEmail(file, k) = urls_to_scrape[k].email_id
             /\ Pending(k) =>
                  \E p \in Positions :
                      /\ log[p].ev = "text"
                      /\ log[p].k = k
                      /\ FileEmail(file, k) = log[p].v

\* C12: a file that lacks the channel_url or the email_id column makes the
\* load fail, before any browser action and any write of the store
C12_LoadRejectsMalformed ==
    ~({"channel_url", "email_id"} \subseteq Range(fileAtLoad.header)) =>
        /\ pc = "load_failed"
        /\ log = <<>>
        /\ file = fileAtLoad

\* the steps of one record in order, each with the events of its attempt
Chain ==
    <<"nav", "tagline", "trigger", "sitekey", "solver", "inject", "submit",
      "text", "save_open", "saved">>

StepEvents ==
    << {"nav", "nav_fail"}, {"tagline", "tagline_fail"},
       {"trigger", "trigger_not_visible", "trigger_absent"},
       {"sitekey", "sitekey_fail"}, {"solver", "solver_fail"},
       {"inject", "inject_fail"}, {"submit", "submit_fail"},
       {"text", "text_fail"}, {"save_open", "save_read_fail"},
       {"saved", "save_fail"} >>

\* C14: a step of a record is attempted only after the step before it
\* succeeded for the same record in the same run: save after the text was
\* read, after submit, after inject, after the solver returned, after the
\* site key was read, after the trigger click, after the navigation to the
\* record's address
C14_StepOrdering ==
    \A p \in Positions :
        /\ \A r \in 2..Len(Chain) :
             log[p].ev \in StepEvents[r] =>
                \E q \in 1..(p - 1) :
                    log[q].k = log[p].k /\ log[q].ev = Chain[r - 1]
        /\ log[p].ev \in {"nav", "save_open"} =>
                log[p].v = urls_to_scrape[log[p].k].channel_url
        /\ log[p].ev = "solver" => log[p].v \in Codes
        /\ log[p].ev \in UNION Range(StepEvents) =>
                /\ log[p].k \in 1..Len(urls_to_scrape)
                /\ Pending(log[p].k)
                /\ \A q \in Positions :
                     (log[q].ev = log[p].ev /\ log[q].k = log[p].k) => q = p

C14_Witness ==
    /\ Has("saved", 1)
    /\ Has("saved", 2)
    /\ pc = "done"

\* C17: whenever save_emails_to_csv completes for a record in the main
\* flow, the record's email_id in the store is non-empty
C17_PersistedMeansResolved ==
    (Len(log) > 0 /\ log[Len(log)].ev = "saved") =>
        FileEmail(file, log[Len(log)].k) # ""

PendingRows(f) ==
    Cardinality({ k \in 1..Len(f.rows) : FileEmail(f, k) = "" })

\* C18: a save_emails_to_csv call of a run changes the email_id of no row
\* that had a non-empty one, and does not increase the number of pending rows
C18_WriteOnce ==
    (Len(log) > 0 /\ log[Len(log)].ev \in {"saved", "save_fail"}) =>
        /\ \A k \in 1..Len(call.before.rows) :
             FileEmail(call.before, k) # "" =>
                /\ k <= Len(file.rows)
                /\ FileEmail(file, k) = FileEmail(call.before, k)
        /\ PendingRows(file) <= PendingRows(call.before)

\* C19: within a run the solver is called at most once, and
\* save_emails_to_csv is called at most once, for each distinct channel_url
C19_OncePerIdentifier ==
    \A u \in Urls :
        /\ Cardinality({ p \in Positions :
                /\ log[p].ev \in {"solver", "solver_fail"}
                /\ urls_to_scrape[log[p].k].channel_url = u }) <= 1
        /\ Cardinality({ p \in Positions :
                log[p].ev = "save_open" /\ log[p].v = u }) <= 1

\* C15: records are visited in load order, one at a time; when a run halts on
\* a fatal outcome at record N, every record after N has in the store the
\* value it had before the run, and the next run skips every record before N
\* and processes record N first
C15_Resumability ==
    /\ \A p, q \in Positions : p < q => log[p].k <= log[q].k
    /\ \A k \in 1..Len(urls_to_scrape) : k < i => \E p \in Positions : log[p].k = k
    /\ (pc \in {"raised", "exited", "returned"} /\ i >= 1) =>
          \A k \in (i + 1)..Len(urls_to_scrape) :
              /\ k <= Len(file.rows)
              /\ FileEmail(file, k) = urls_to_scrape[k].email_id
    /\ prevHalt > 0 =>
          /\ pc # "load_failed"
          /\ prevHalt <= Len(urls_to_scrape)
          /\ Pending(prevHalt)
          /\ \A k \in 1..(prevHalt - 1) : ~Pending(k)

\* the last event is a completed save, the first one after the last external
\* edit, and a save had completed before that edit
NextSaveAfterEdit ==
    /\ edit.n > 0
    /\ Len(log) > edit.at
    /\ log[Len(log)].ev = "saved"
    /\ \A p \in (edit.at + 1)..(Len(log) - 1) : log[p].ev # "saved"
    /\ \E p \in 1..edit.at : log[p].ev = "saved"

\* C16 as claimed: the save_emails_to_csv call that follows an external
\* change of the file overwrites it: the externally written value is absent
\* from the file after the call
C16_ExternalEditOverwritten ==
    NextSaveAfterEdit => FileEmail(file, edit.k) # edit.v

\* C16 as amended: the external change is not noticed by the run (the
\* records to process stay those loaded), but the next save_emails_to_csv
\* call reads the file again before rewriting it, so the externally written
\* email_id is still in the file after the call, except in a row whose
\* channel_url is the one being saved, which gets the saved value
C16_ExternalEditKept ==
    /\ urls_to_scrape = load_urls_from_csv(fileAtLoad).urls
    /\ NextSaveAfterEdit =>
          /\ edit.k <= Len(file.rows)
          /\ FileEmail(file, edit.k) =
                IF FileUrl(file, edit.k) = urls_to_scrape[log[Len(log)].k].channel_url
                THEN log[Len(log)].v
                ELSE edit.v

C16_Witness ==
    /\ NextSaveAfterEdit
    /\ FileEmail(file, edit.k) = "x@y.com"
    /\ edit.k # log[Len(log)].k

\* C13: extract_email_content returns every distinct match of the page text
\* exactly once, however often it occurs, and nothing that is not a match
C13_Deduplication ==
    pc = "extracted" =>
        /\ \A a, b \in 1..Len(emails) : emails[a] = emails[b] => a = b
        /\ \A m \in Range(findall(page_source)) :
             \E a \in 1..Len(emails) : emails[a] = m
        /\ \A a \in 1..Len(emails) : emails[a] \in Range(findall(page_source))

C13_Witness ==
    /\ pc = "extracted"
    /\ findall(page_source) =
          << <<"a", "@", "b", ".", "c", "c">>, <<"a", "@", "b", ".", "c", "c">> >>
    /\ emails = << <<"a", "@", "b", ".", "c", "c">> >>
====
